---------------------------- MODULE Spec2Model ----------------------------
(***************************************************************************)
(* A model of src/SpanishGen.py: the phonology engine (generate_syllable,  *)
(* generate_word), the morphology engine (add_rule, apply_morphology), the *)
(* syntax engine (generate_sentence, generate_yesno_question) and the      *)
(* level flow of LanguageCreatorGame.                                      *)
(*                                                                         *)
(* A Python string is a sequence of one-character strings, so "pla" is     *)
(* <<"p","l","a">>; a grapheme of an inventory is such a sequence too.     *)
(***************************************************************************)
EXTENDS Integers, Sequences, FiniteSets, TLC

VARIABLES
    consonants,      \* PhonologySystem.consonants
    vowels,          \* PhonologySystem.vowels
    pc,              \* position of the running phonology call
    op,              \* which phonology method was called
    syllable_count,  \* generate_word's local syllable_count
    word,            \* generate_word's local word (the candidate being built)
    k,               \* syllables appended so far by "for _ in range(syllable_count)"
    result,          \* the returned string
    rules,           \* MorphologySystem.rules: MorphologyRule records in registration order
    morph_call,      \* the last MorphologySystem call: method, arguments, returned string
    word_order,      \* SyntaxSystem.word_order
    syntax_rules,    \* SyntaxSystem.rules
    syntax_call,     \* the last SyntaxSystem call: method, arguments, returned string
    current_level,   \* LanguageCreatorGame.current_level
    vocabulary,      \* LanguageCreatorGame.vocabulary: the number of words per word class
    gpc,             \* position of run_game
    sample_i         \* the index i of "for i in range(15)" in level_1_phonology

phonVars == <<consonants, vowels, pc, op, syllable_count, word, k, result>>
morphVars == <<rules, morph_call>>
syntaxVars == <<word_order, syntax_rules, syntax_call>>
gameVars == <<current_level, vocabulary, gpc, sample_i>>

vars == <<phonVars, morphVars, syntaxVars, gameVars>>

-----------------------------------------------------------------------------
(* Strings *)

Last(s) == s[Len(s)]

\* the character class [aeiou] of the three regular expressions
VowelChars == {"a", "e", "i", "o", "u"}

ALLOWED_CLUSTERS ==
    { <<"p","l">>, <<"p","r">>, <<"b","l">>, <<"b","r">>, <<"f","l">>, <<"f","r">>,
      <<"c","l">>, <<"c","r">>, <<"g","l">>, <<"g","r">>,
      <<"t","r">>, <<"d","r">> }

ALLOWED_FINAL_CONSONANTS == {"n", "s", "r", "l", "d", "z"}

syllable_patterns ==
    << <<"C","V">>, <<"C","V","C">>, <<"C","V","V">>, <<"V">>, <<"C","C","V">> >>

-----------------------------------------------------------------------------
(* Construction: the dataclass defaults *)

NoMorphCall == [method |-> "none", base_word |-> <<>>, rule_name |-> "", returned |-> <<>>]

NoSyntaxCall ==
    [method |-> "none", subject |-> <<>>, verb |-> <<>>, obj |-> <<>>, returned |-> <<>>]

\* MorphologySystem(): rules = []
MorphIdle == rules = <<>> /\ morph_call = NoMorphCall

\* SyntaxSystem(): word_order = "SVO", rules = []
SyntaxIdle == word_order = "SVO" /\ syntax_rules = <<>> /\ syntax_call = NoSyntaxCall

\* defaultdict(list): every word class holds no word
EmptyVocabulary ==
    [unknown |-> 0, noun |-> 0, verb |-> 0, adjective |-> 0, adverb |-> 0]

\* LanguageCreatorGame.__init__, run_game not started
GameIdle ==
    /\ current_level = 1
    /\ vocabulary = EmptyVocabulary
    /\ gpc = "constructed"
    /\ sample_i = 0

-----------------------------------------------------------------------------
(* PhonologySystem.generate_syllable *)

RECURSIVE FillPattern(_, _, _)
\* "for char in pattern": every string the loop can build, one random.choice
\* of the inventory per pattern symbol
FillPattern(pattern, cons, vows) ==
    IF pattern = <<>> THEN { <<>> }
    ELSE LET inventory == IF pattern[1] = "C" THEN cons
                          ELSE IF pattern[1] = "V" THEN vows
                          ELSE { <<>> }
         IN  { g \o rest : g \in inventory,
                           rest \in FillPattern(Tail(pattern), cons, vows) }

\* the strings generate_syllable can return once random.choice picked `pattern`
SyllablesOf(pattern, cons, vows) ==
    IF pattern = <<"C","C","V">>
    THEN { cluster \o v : cluster \in ALLOWED_CLUSTERS, v \in vows }
    ELSE FillPattern(pattern, cons, vows)

\* random.choice of an empty list raises IndexError: the pattern reaches a
\* random.choice(list(self.consonants)) or random.choice(list(self.vowels))
\* whose set is empty
ChoiceRaises(pattern, cons, vows) ==
    IF pattern = <<"C","C","V">>
    THEN vows = {}
    ELSE \E j \in 1..Len(pattern) :
            \/ pattern[j] = "C" /\ cons = {}
            \/ pattern[j] = "V" /\ vows = {}

-----------------------------------------------------------------------------
(* PhonologySystem.generate_word: the four acceptance checks *)

\* word.startswith("rr")
StartsWithRR(w) == Len(w) >= 2 /\ w[1] = "r" /\ w[2] = "r"

RECURSIVE FindAllFrom(_, _)
\* re.findall(r'[^aeiou]{2}', word): the scan takes the leftmost match and
\* resumes after it, so the matches do not overlap
FindAllFrom(w, i) ==
    IF i + 1 > Len(w) THEN <<>>
    ELSE IF w[i] \notin VowelChars /\ w[i+1] \notin VowelChars
         THEN << SubSeq(w, i, i+1) >> \o FindAllFrom(w, i + 2)
         ELSE FindAllFrom(w, i + 1)

FindAllClusters(w) == FindAllFrom(w, 1)

\* "for c in clusters: if c not in ALLOWED_CLUSTERS: regenerate = True"
IllegalCluster(w) ==
    LET clusters == FindAllClusters(w)
    IN  \E j \in 1..Len(clusters) : clusters[j] \notin ALLOWED_CLUSTERS

\* re.search(r'[aeiou]{3,}', word)
LongVowelRun(w) ==
    \E i \in 1..(Len(w) - 2) :
        /\ w[i] \in VowelChars
        /\ w[i+1] \in VowelChars
        /\ w[i+2] \in VowelChars

\* IllegalFinal with the final check reading word[0] for word[-1]
IllegalFinal_first_char(w) ==
    /\ Len(w) > 0
    /\ Last(w) \notin VowelChars
    /\ w[1] \notin ALLOWED_FINAL_CONSONANTS

\* re.search(r'[^aeiou]$', word) and word[-1] not in ALLOWED_FINAL_CONSONANTS
IllegalFinal(w) ==
    /\ Len(w) > 0
    /\ Last(w) \notin VowelChars
    /\ Last(w) \notin ALLOWED_FINAL_CONSONANTS

\* the flag `regenerate` after the three checks that set it
Regenerate(w) == IllegalCluster(w) \/ LongVowelRun(w) \/ IllegalFinal(w)

\* the candidate is returned: no `continue`, and `not regenerate`
Accepted(w) == ~StartsWithRR(w) /\ ~Regenerate(w)

-----------------------------------------------------------------------------
(* Inputs of the phonology engine *)

\* graphemes the consonant inventory is drawn from
ConsonantPool == { <<"p">>, <<"l">>, <<"l","l">>, <<"r","r">> }

\* vowel inventories: empty, a vowel letter, a grapheme that is no vowel letter
VowelInventories == { {}, { <<"a">> }, { <<"y">> } }

\* largest syllable_count passed explicitly
MaxSyllableCount == 2

\* random.randint(1, 3)
RandintLo == 1
RandintHi == 3

-----------------------------------------------------------------------------
(* The phonology engine as a state machine *)

\* no phonology call is running
PhonIdle ==
    /\ pc = "idle"
    /\ op = "none"
    /\ syllable_count = 0
    /\ word = <<>>
    /\ k = 0
    /\ result = <<>>

InitPhon ==
    /\ consonants \in SUBSET ConsonantPool
    /\ vowels \in VowelInventories
    /\ MorphIdle
    /\ SyntaxIdle
    /\ GameIdle
    /\ PhonIdle

\* a call of generate_syllable()
generate_syllable ==
    /\ pc = "idle"
    /\ op' = "generate_syllable"
    /\ \E p \in 1..Len(syllable_patterns) :
         LET pattern == syllable_patterns[p]
         IN  IF ChoiceRaises(pattern, consonants, vowels)
             THEN pc' = "raised" /\ result' = result
             ELSE /\ pc' = "returned"
                  /\ result' \in SyllablesOf(pattern, consonants, vowels)
    /\ UNCHANGED <<consonants, vowels, syllable_count, word, k, morphVars, syntaxVars, gameVars>>

\* generate_word(syllable_count) up to the first "while True"
generate_word_call ==
    /\ pc = "idle"
    /\ op' = "generate_word"
    /\ \/ \E n \in 0..MaxSyllableCount : syllable_count' = n
       \/ \E n \in RandintLo..RandintHi : syllable_count' = n
    /\ pc' = "loop"
    /\ word' = <<>>
    /\ k' = 0
    /\ UNCHANGED <<consonants, vowels, result, morphVars, syntaxVars, gameVars>>

\* one pass of "for _ in range(syllable_count): word += self.generate_syllable()"
generate_word_syllable ==
    /\ pc = "loop"
    /\ k < syllable_count
    /\ \E p \in 1..Len(syllable_patterns) :
         LET pattern == syllable_patterns[p]
         IN  IF ChoiceRaises(pattern, consonants, vowels)
             THEN pc' = "raised" /\ UNCHANGED <<word, k>>
             ELSE /\ \E s \in SyllablesOf(pattern, consonants, vowels) :
                        word' = word \o s
                  /\ k' = k + 1
                  /\ pc' = pc
    /\ UNCHANGED <<consonants, vowels, op, syllable_count, result, morphVars, syntaxVars, gameVars>>

\* the checks on the finished candidate: return it, or go round the loop
generate_word_check ==
    /\ pc = "loop"
    /\ k = syllable_count
    /\ IF Accepted(word)
       THEN pc' = "returned" /\ result' = word /\ UNCHANGED <<word, k>>
       ELSE pc' = "loop" /\ word' = <<>> /\ k' = 0 /\ result' = result
    /\ UNCHANGED <<consonants, vowels, op, syllable_count, morphVars, syntaxVars, gameVars>>

NextPhon ==
    \/ generate_syllable
    \/ generate_word_call
    \/ generate_word_syllable
    \/ generate_word_check

SpecPhon == InitPhon /\ [][NextPhon]_vars

\* every string generate_syllable can return
AllSyllables(cons, vows) ==
    UNION { SyllablesOf(syllable_patterns[p], cons, vows) :
                p \in 1..Len(syllable_patterns) }

RECURSIVE Completions(_, _, _)
\* the candidates the for loop can finish from the prefix w with m more syllables
Completions(w, m, syllables) ==
    IF m = 0 THEN { w }
    ELSE UNION { Completions(w \o s, m - 1, syllables) : s \in syllables }

\* the loop appends a syllable after which a candidate the checks accept can
\* still be completed
promising_syllable ==
    /\ generate_word_syllable
    /\ \E c \in Completions(word', syllable_count - k',
                            AllSyllables(consonants, vowels)) : Accepted(c)

\* random.choice and random.randint draw uniformly and independently: a draw
\* that is offered again and again is taken again and again (strong fairness
\* of the promising draw at each position of the candidate), and the checks
\* run when a candidate is complete
FairDraws ==
    /\ WF_vars(generate_word_syllable)
    /\ WF_vars(generate_word_check)
    /\ \A j \in 0..(RandintHi - 1) : SF_vars(k = j /\ promising_syllable)

\* the consonant graphemes of the runs checked under fair draws
FairConsonantPool == { <<"p">>, <<"r","r">> }

\* the vowel inventories of those runs: VowelInventories and a three-letter
\* grapheme that begins with two consonant letters
FairVowelInventories == VowelInventories \cup { { <<"l","l","a">> } }

InitPhonFair ==
    /\ consonants \in SUBSET FairConsonantPool
    /\ vowels \in FairVowelInventories
    /\ MorphIdle
    /\ SyntaxIdle
    /\ GameIdle
    /\ PhonIdle

SpecPhonFair == InitPhonFair /\ [][NextPhon]_vars /\ FairDraws


-----------------------------------------------------------------------------
(* MorphologySystem *)

\* MorphologyRule(name, rule_type, marker, meaning); meaning is only printed
MorphologyRule(name, rule_type, marker) ==
    [name |-> name, rule_type |-> rule_type, marker |-> marker]

_apply_plural_rule(w) ==
    IF w = <<>> THEN w
    ELSE IF Last(w) \in {"a", "e", "i", "o", "u"} THEN w \o <<"s">>
    ELSE IF Last(w) = "z" THEN SubSeq(w, 1, Len(w) - 1) \o <<"c", "e", "s">>
    ELSE w \o <<"e", "s">>

RECURSIVE ScanRules_type_first(_, _, _, _)
\* ScanRules with the rule_type branches tried before the "plural" branch
ScanRules_type_first(rs, i, base_word, rule_name) ==
    IF i > Len(rs) THEN base_word
    ELSE LET rule == rs[i]
         IN  IF rule.name = rule_name
             THEN IF rule.rule_type = "prefix" THEN rule.marker \o base_word
                  ELSE IF rule.rule_type = "suffix" THEN base_word \o rule.marker
                  ELSE IF rule.rule_type = "reduplication" THEN base_word \o base_word
                  ELSE IF rule_name = "plural" THEN _apply_plural_rule(base_word)
                  ELSE ScanRules_type_first(rs, i + 1, base_word, rule_name)
             ELSE ScanRules_type_first(rs, i + 1, base_word, rule_name)

RECURSIVE ScanRules(_, _, _, _)
\* "for rule in self.rules" from the i-th rule on: a rule whose name matches
\* returns from one of four branches; a matching rule of any other rule_type
\* reaches no return and the loop goes on to the next rule
ScanRules(rs, i, base_word, rule_name) ==
    IF i > Len(rs) THEN base_word
    ELSE LET rule == rs[i]
         IN  IF rule.name = rule_name
             THEN IF rule_name = "plural" THEN _apply_plural_rule(base_word)
                  ELSE IF rule.rule_type = "prefix" THEN rule.marker \o base_word
                  ELSE IF rule.rule_type = "suffix" THEN base_word \o rule.marker
                  ELSE IF rule.rule_type = "reduplication" THEN base_word \o base_word
                  ELSE ScanRules(rs, i + 1, base_word, rule_name)
             ELSE ScanRules(rs, i + 1, base_word, rule_name)

\* apply_morphology falling off the loop without "return base_word"
apply_morphology_no_default(rs, base_word, rule_name) ==
    IF \E j \in 1..Len(rs) : rs[j].name = rule_name
    THEN ScanRules(rs, 1, base_word, rule_name)
    ELSE <<>>

apply_morphology(rs, base_word, rule_name) == ScanRules(rs, 1, base_word, rule_name)

(* Inputs of the morphology engine *)

RuleNames == {"plural", "re_prefix"}
LookupNames == RuleNames \cup {"nope"}
RuleTypes == {"prefix", "suffix", "infix", "reduplication"}
Markers == { <<>>, <<"r","e">> }
BaseWords ==
    { <<>>, <<"c","a","s","a">>, <<"l","u","z">>, <<"p","a","p","e","l">> }

\* longest rule list
MaxRules == 2

InitMorph ==
    /\ MorphIdle
    /\ SyntaxIdle
    /\ PhonIdle
    /\ GameIdle
    /\ consonants = {}
    /\ vowels = {}

\* add_rule(name, rule_type, marker, meaning)
add_rule ==
    /\ Len(rules) < MaxRules
    /\ \E name \in RuleNames, rule_type \in RuleTypes, marker \in Markers :
         /\ rules' = Append(rules, MorphologyRule(name, rule_type, marker))
         /\ morph_call' = [method |-> "add_rule", base_word |-> <<>>,
                           rule_name |-> name, returned |-> <<>>]
    /\ UNCHANGED <<phonVars, syntaxVars, gameVars>>

\* apply_morphology(base_word, rule_name)
apply_morphology_call ==
    /\ \E base_word \in BaseWords, rule_name \in LookupNames :
         morph_call' = [method |-> "apply_morphology", base_word |-> base_word,
                        rule_name |-> rule_name,
                        returned |-> apply_morphology(rules, base_word, rule_name)]
    /\ UNCHANGED <<rules, phonVars, syntaxVars, gameVars>>

NextMorph == add_rule \/ apply_morphology_call

SpecMorph == InitMorph /\ [][NextMorph]_vars


-----------------------------------------------------------------------------
(* SyntaxSystem *)

\* the characters str.strip() removes
WhitespaceChars == {" ", "\t", "\n", "\r"}

RECURSIVE lstrip(_)
lstrip(s) ==
    IF s # <<>> /\ s[1] \in WhitespaceChars THEN lstrip(Tail(s)) ELSE s

RECURSIVE rstrip(_)
rstrip(s) ==
    IF s # <<>> /\ Last(s) \in WhitespaceChars
    THEN rstrip(SubSeq(s, 1, Len(s) - 1))
    ELSE s

strip(s) == rstrip(lstrip(s))

\* f"{a} {b} {c}"
Template(a, b, c) == a \o <<" ">> \o b \o <<" ">> \o c

\* generate_sentence with the else branch using the VSO template
generate_sentence_else_vso(order, subject, verb, obj) ==
    IF order = "SVO" THEN strip(Template(subject, verb, obj))
    ELSE IF order = "SOV" THEN strip(Template(subject, obj, verb))
    ELSE strip(Template(verb, subject, obj))

generate_sentence(order, subject, verb, obj) ==
    IF order = "SVO" THEN strip(Template(subject, verb, obj))
    ELSE IF order = "SOV" THEN strip(Template(subject, obj, verb))
    ELSE IF order = "VSO" THEN strip(Template(verb, subject, obj))
    ELSE strip(Template(subject, verb, obj))

generate_yesno_question(order, subject, verb, obj) ==
    LET base_sentence == generate_sentence(order, subject, verb, obj)
    IN  <<"¿">> \o base_sentence \o <<"?">>

(* Inputs of the syntax engine *)

\* the three orders the code names and one it does not
WordOrders == {"SVO", "SOV", "VSO", "OSV"}

\* words for the three slots: plain words, and words that begin or end with a
\* space
SlotWords ==
    { <<"p","e","r","r","o">>, <<"c","o","m","e">>, <<"p","a","n">>,
      <<" ","a">>, <<"a"," ">> }

InitSyntax ==
    /\ SyntaxIdle
    /\ MorphIdle
    /\ PhonIdle
    /\ GameIdle
    /\ consonants = {}
    /\ vowels = {}

\* self.syntax.word_order = ...
set_word_order ==
    /\ \E order \in WordOrders : word_order' = order
    /\ syntax_call' = NoSyntaxCall
    /\ UNCHANGED <<syntax_rules, phonVars, morphVars, gameVars>>

\* generate_sentence(subject, verb, obj), obj defaulting to ""
generate_sentence_call ==
    /\ \E subject \in SlotWords, verb \in SlotWords, obj \in SlotWords \cup { <<>> } :
         syntax_call' = [method |-> "generate_sentence", subject |-> subject,
                         verb |-> verb, obj |-> obj,
                         returned |-> generate_sentence(word_order, subject, verb, obj)]
    /\ UNCHANGED <<word_order, syntax_rules, phonVars, morphVars, gameVars>>

\* generate_yesno_question(subject, verb, obj), obj defaulting to ""
generate_yesno_question_call ==
    /\ \E subject \in SlotWords, verb \in SlotWords, obj \in SlotWords \cup { <<>> } :
         syntax_call' = [method |-> "generate_yesno_question", subject |-> subject,
                         verb |-> verb, obj |-> obj,
                         returned |-> generate_yesno_question(word_order, subject, verb, obj)]
    /\ UNCHANGED <<word_order, syntax_rules, phonVars, morphVars, gameVars>>

NextSyntax == set_word_order \/ generate_sentence_call \/ generate_yesno_question_call

SpecSyntax == InitSyntax /\ [][NextSyntax]_vars


-----------------------------------------------------------------------------
(* LanguageCreatorGame.run_game: the three levels in order.                *)
(* The flow of the levels reads only how many words each word class holds, *)
(* so vocabulary keeps the counts and not the words.                       *)

\* PhonologySystem(): the default inventories
DefaultConsonants ==
    { <<"p">>, <<"b">>, <<"t">>, <<"d">>, <<"k">>, <<"g">>, <<"m">>, <<"n">>,
      <<"s">>, <<"z">>, <<"l">>, <<"r">>, <<"ñ">>, <<"l","l">>, <<"j">>,
      <<"c","h">>, <<"f">>, <<"v">>, <<"h">> }

DefaultVowels == { <<"a">>, <<"e">>, <<"i">>, <<"o">>, <<"u">> }

\* what the user types at "請輸入要添加的子音" / "請輸入要移除的子音": a new
\* consonant, nothing, and a string of more than two characters
ConsonantInputs == { <<"x">>, <<>>, <<"s","c","h">> }

\* what the user types at "請輸入要添加的母音" / "請輸入要移除的母音"
VowelInputs == DefaultVowels

\* what the user types at the word class prompt; anything else files a noun
WordClassInputs == {"n", "v", "a", "d", ""}

\* what the user types at the word order prompt
OrderInputs == {"1", "2", "3", "9"}

\* "for i in range(15)"
SampleWords == 15

\* generate_word() can raise: some draw of a pattern reaches an empty inventory
WordMayRaise(cons, vows) ==
    \E p \in 1..Len(syllable_patterns) : ChoiceRaises(syllable_patterns[p], cons, vows)

\* generate_word() can return: randint draws 1 and some syllable is accepted
WordMayReturn(cons, vows) ==
    \E p \in 1..Len(syllable_patterns) :
        /\ ~ChoiceRaises(syllable_patterns[p], cons, vows)
        /\ \E s \in SyllablesOf(syllable_patterns[p], cons, vows) : Accepted(s)

\* the twelve self.morphology.add_rule calls of level_2_morphology
Level2Rules ==
    << MorphologyRule("re_prefix", "prefix", <<"r","e">>),
       MorphologyRule("des_prefix", "prefix", <<"d","e","s">>),
       MorphologyRule("in_prefix", "prefix", <<"i","n">>),
       MorphologyRule("con_prefix", "prefix", <<"c","o","n">>),
       MorphologyRule("plural_s", "suffix", <<"s">>),
       MorphologyRule("plural_es", "suffix", <<"e","s">>),
       MorphologyRule("cion_suffix", "suffix", <<"c","i","ó","n">>),
       MorphologyRule("mente_suffix", "suffix", <<"m","e","n","t","e">>),
       MorphologyRule("ar_suffix", "suffix", <<"a","r">>),
       MorphologyRule("er_suffix", "suffix", <<"e","r">>),
       MorphologyRule("ir_suffix", "suffix", <<"i","r">>),
       MorphologyRule("plural", "suffix", <<>>) >>

\* SyntaxRule(name, pattern, description); description is only printed
SyntaxRule(name, pattern) == [name |-> name, pattern |-> pattern]

InitGame ==
    /\ consonants = DefaultConsonants
    /\ vowels = DefaultVowels
    /\ PhonIdle
    /\ MorphIdle
    /\ SyntaxIdle
    /\ current_level = 1
    /\ vocabulary = EmptyVocabulary
    /\ gpc = "l1_consonants"
    /\ sample_i = 0

\* choice 'a' of the consonant loop
l1_add_consonant ==
    /\ gpc = "l1_consonants"
    /\ \E new_consonant \in ConsonantInputs :
         consonants' = IF new_consonant # <<>> /\ Len(new_consonant) <= 2
                       THEN consonants \cup {new_consonant}
                       ELSE consonants
    /\ UNCHANGED <<vowels, pc, op, syllable_count, word, k, result,
                   morphVars, syntaxVars, gameVars>>

\* choice 'b' of the consonant loop
l1_remove_consonant ==
    /\ gpc = "l1_consonants"
    /\ \E remove_consonant \in ConsonantInputs :
         consonants' = IF remove_consonant \in consonants
                       THEN consonants \ {remove_consonant}
                       ELSE consonants
    /\ UNCHANGED <<vowels, pc, op, syllable_count, word, k, result,
                   morphVars, syntaxVars, gameVars>>

\* choice 'c' of the consonant loop
l1_consonants_done ==
    /\ gpc = "l1_consonants"
    /\ gpc' = "l1_vowels"
    /\ UNCHANGED <<phonVars, morphVars, syntaxVars, current_level, vocabulary, sample_i>>

\* choice 'a' of the vowel loop
l1_add_vowel ==
    /\ gpc = "l1_vowels"
    /\ \E new_vowel \in VowelInputs :
         vowels' = IF new_vowel # <<>> /\ Len(new_vowel) <= 3
                   THEN vowels \cup {new_vowel}
                   ELSE vowels
    /\ UNCHANGED <<consonants, pc, op, syllable_count, word, k, result,
                   morphVars, syntaxVars, gameVars>>

\* choice 'b' of the vowel loop
l1_remove_vowel ==
    /\ gpc = "l1_vowels"
    /\ \E remove_vowel \in VowelInputs :
         vowels' = IF remove_vowel \in vowels
                   THEN vowels \ {remove_vowel}
                   ELSE vowels
    /\ UNCHANGED <<consonants, pc, op, syllable_count, word, k, result,
                   morphVars, syntaxVars, gameVars>>

\* choice 'c' of the vowel loop: on to "for i in range(15)"
l1_vowels_done ==
    /\ gpc = "l1_vowels"
    /\ gpc' = "l1_words"
    /\ sample_i' = 0
    /\ UNCHANGED <<phonVars, morphVars, syntaxVars, current_level, vocabulary>>

\* one pass of the sample loop: word = self.phonology.generate_word(), filed
\* under 'unknown'; after the fifteenth, current_level = 2 and level 2 starts.
\* An exception of generate_word is caught nowhere and ends the program.
l1_generate_word ==
    /\ gpc = "l1_words"
    /\ sample_i < SampleWords
    /\ \/ /\ WordMayReturn(consonants, vowels) = TRUE
          /\ vocabulary' = [vocabulary EXCEPT !.unknown = @ + 1]
          /\ sample_i' = sample_i + 1
          /\ IF sample_i + 1 = SampleWords
             THEN current_level' = 2 /\ gpc' = "l2_classify"
             ELSE UNCHANGED <<current_level, gpc>>
       \/ /\ WordMayRaise(consonants, vowels) = TRUE
          /\ gpc' = "crashed"
          /\ UNCHANGED <<current_level, vocabulary, sample_i>>
    /\ UNCHANGED <<phonVars, morphVars, syntaxVars>>

\* one pass of "for word in self.vocabulary['unknown'][:]"
l2_classify ==
    /\ gpc = "l2_classify"
    /\ vocabulary.unknown > 0
    /\ \E word_class \in WordClassInputs :
         LET key == IF word_class = "v" THEN "verb"
                    ELSE IF word_class = "a" THEN "adjective"
                    ELSE IF word_class = "d" THEN "adverb"
                    ELSE "noun"
         IN  vocabulary' = [vocabulary EXCEPT ![key] = @ + 1, !.unknown = @ - 1]
    /\ UNCHANGED <<phonVars, morphVars, syntaxVars, current_level, gpc, sample_i>>

\* the rest of level_2_morphology: the twelve add_rule calls, current_level = 3
l2_add_rules ==
    /\ gpc = "l2_classify"
    /\ vocabulary.unknown = 0
    /\ rules' = rules \o Level2Rules
    /\ current_level' = 3
    /\ gpc' = "l3_order"
    /\ UNCHANGED <<phonVars, morph_call, syntaxVars, vocabulary, sample_i>>

\* level_3_syntax up to the sample sentences: the word order and the two
\* self.syntax.add_rule calls (the question marker left at its default)
l3_order ==
    /\ gpc = "l3_order"
    /\ \E order_choice \in OrderInputs :
         LET order == IF order_choice = "1" THEN "SVO"
                      ELSE IF order_choice = "2" THEN "SOV"
                      ELSE IF order_choice = "3" THEN "VSO"
                      ELSE word_order
         IN  /\ word_order' = order
             /\ syntax_rules' = syntax_rules \o
                    << SyntaxRule("basic_sentence", <<order>>),
                       SyntaxRule("question", <<order, "+", "¿?">>) >>
    /\ gpc' = "l3_noun"
    /\ UNCHANGED <<phonVars, morphVars, syntax_call, current_level, vocabulary, sample_i>>

\* "if not self.vocabulary['noun']: ...append(self.phonology.generate_word())"
l3_noun ==
    /\ gpc = "l3_noun"
    /\ IF vocabulary.noun = 0
       THEN \/ /\ WordMayReturn(consonants, vowels) = TRUE
               /\ vocabulary' = [vocabulary EXCEPT !.noun = @ + 1]
               /\ gpc' = "l3_verb"
            \/ /\ WordMayRaise(consonants, vowels) = TRUE
               /\ gpc' = "crashed"
               /\ UNCHANGED vocabulary
       ELSE gpc' = "l3_verb" /\ UNCHANGED vocabulary
    /\ UNCHANGED <<phonVars, morphVars, syntaxVars, current_level, sample_i>>

\* "if not self.vocabulary['verb']: ...append(self.phonology.generate_word())"
l3_verb ==
    /\ gpc = "l3_verb"
    /\ IF vocabulary.verb = 0
       THEN \/ /\ WordMayReturn(consonants, vowels) = TRUE
               /\ vocabulary' = [vocabulary EXCEPT !.verb = @ + 1]
               /\ gpc' = "l3_sentences"
            \/ /\ WordMayRaise(consonants, vowels) = TRUE
               /\ gpc' = "crashed"
               /\ UNCHANGED vocabulary
       ELSE gpc' = "l3_sentences" /\ UNCHANGED vocabulary
    /\ UNCHANGED <<phonVars, morphVars, syntaxVars, current_level, sample_i>>

\* the three sample sentences and final_showcase only print
l3_sentences ==
    /\ gpc = "l3_sentences"
    /\ gpc' = "done"
    /\ UNCHANGED <<phonVars, morphVars, syntaxVars, current_level, vocabulary, sample_i>>

NextGame ==
    \/ l1_add_consonant
    \/ l1_remove_consonant
    \/ l1_consonants_done
    \/ l1_add_vowel
    \/ l1_remove_vowel
    \/ l1_vowels_done
    \/ l1_generate_word
    \/ l2_classify
    \/ l2_add_rules
    \/ l3_order
    \/ l3_noun
    \/ l3_verb
    \/ l3_sentences

SpecGame == InitGame /\ [][NextGame]_vars

-----------------------------------------------------------------------------
(* Properties of generate_word and generate_syllable, under SpecPhon *)

WordReturned == op = "generate_word" /\ pc = "returned"

\* C1: every 2-character substring of a returned word that is made only of
\* non-vowel characters is an allowed onset cluster (all overlapping windows)
C1_EveryConsonantPairAllowed ==
    WordReturned =>
        \A i \in 1..(Len(result) - 1) :
            (result[i] \notin VowelChars /\ result[i+1] \notin VowelChars)
                => SubSeq(result, i, i + 1) \in ALLOWED_CLUSTERS

\* C2: a returned word does not start with "rr", holds no run of three or more
\* vowel characters, and a final non-vowel character is one of n, s, r, l, d, z
C2_RemainingChecksHold ==
    WordReturned =>
        /\ ~(Len(result) >= 2 /\ SubSeq(result, 1, 2) = <<"r","r">>)
        /\ \A i \in 1..(Len(result) - 2) :
               ~({result[i], result[i+1], result[i+2]} \subseteq {"a","e","i","o","u"})
        /\ (Len(result) > 0 /\ result[Len(result)] \notin {"a","e","i","o","u"})
               => result[Len(result)] \in {"n","s","r","l","d","z"}

\* a three-syllable word that ends in a consonant and holds two vowels in a row
\* was returned
C2_Witness ==
    /\ WordReturned
    /\ syllable_count = 3
    /\ result[Len(result)] \notin VowelChars
    /\ \E i \in 1..(Len(result) - 1) :
           result[i] \in VowelChars /\ result[i+1] \in VowelChars

\* the four acceptance checks as the specification states them
PassesAllChecks(w) ==
    /\ ~(Len(w) >= 2 /\ SubSeq(w, 1, 2) = <<"r","r">>)
    /\ \A j \in 1..(Len(w) - 1) :
           (w[j] \notin VowelChars /\ w[j+1] \notin VowelChars)
               => SubSeq(w, j, j + 1) \in ALLOWED_CLUSTERS
    /\ \A j \in 1..(Len(w) - 2) :
           ~({w[j], w[j+1], w[j+2]} \subseteq VowelChars)
    /\ (Len(w) > 0 /\ w[Len(w)] \notin VowelChars)
           => w[Len(w)] \in {"n","s","r","l","d","z"}

\* for each pair of inventories and syllable count, whether some concatenation
\* of that many syllables passes all four checks
SatisfiableCases ==
    UNION { { <<cons, vows, n>> } :
            <<cons, vows, n>> \in
              { x \in (SUBSET FairConsonantPool) \X FairVowelInventories \X (0..RandintHi) :
                  \E c \in Completions(<<>>, x[3], AllSyllables(x[1], x[2])) :
                      PassesAllChecks(c) } }

WordCallRunning ==
    op = "generate_word" /\ consonants # {} /\ vowels # {}

Satisfiable == <<consonants, vowels, syllable_count>> \in SatisfiableCases

\* the syllable count is not changed inside the loop
CountFixedInLoop ==
    [][pc = "loop" => syllable_count' = syllable_count]_vars

\* with non-empty inventories and no passing candidate the call stays in its loop
NeverReturnsWhenUnsatisfiable ==
    [][(WordCallRunning /\ ~Satisfiable)' => pc' = "loop"]_vars

\* with non-empty inventories and a passing candidate the call returns
ReturnsWhenSatisfiable ==
    (WordCallRunning /\ Satisfiable) ~> (pc = "returned")

\* a complete candidate is returned if and only if it passes all the checks,
\* and nothing but a complete candidate is returned
ReturnsFirstPassingCandidate ==
    /\ [][(pc = "loop" /\ k = syllable_count)
            => (PassesAllChecks(word) <=> (pc' = "returned" /\ result' = word))]_vars
    /\ [][(pc = "loop" /\ pc' = "returned") => k = syllable_count]_vars

\* C10: the syllable count is fixed before the loop; with non-empty inventories
\* the call never returns when no candidate of that many syllables passes the
\* checks, returns eventually (fair draws) when one does, and what it returns
\* is the first complete candidate that passes all the checks
C10_UncappedGenerateAndTest ==
    /\ CountFixedInLoop
    /\ NeverReturnsWhenUnsatisfiable
    /\ ReturnsWhenSatisfiable
    /\ ReturnsFirstPassingCandidate

\* C6: with an empty consonant set or an empty vowel set, no call of
\* generate_syllable or generate_word returns a string
C6_EmptyInventoryNeverReturns ==
    (consonants = {} \/ vowels = {}) => pc # "returned"

-----------------------------------------------------------------------------
(* Properties of apply_morphology, under SpecMorph *)

Named(rs, n) == { i \in 1..Len(rs) : rs[i].name = n }

\* C4: registering one more rule named n when a rule named n exists leaves
\* apply_morphology(w, n) unchanged for every w
C4_LaterRuleNeverChangesResult ==
    [][ \A n \in LookupNames :
          ( /\ Named(rules, n) # {}
            /\ Len(rules') = Len(rules) + 1
            /\ SubSeq(rules', 1, Len(rules)) = rules
            /\ rules'[Len(rules')].name = n )
          => \A w \in BaseWords :
                apply_morphology(rules', w, n) = apply_morphology(rules, w, n) ]_vars

PluralApplied ==
    /\ morph_call.method = "apply_morphology"
    /\ morph_call.rule_name = "plural"
    /\ Named(rules, "plural") # {}

\* C5: with a rule named "plural" registered, apply_morphology(w, "plural") is
\* w for the empty word, w + "s" after a final vowel, w without its z + "ces"
\* after a final z, and w + "es" otherwise, whatever the rule's type and marker
C5_PluralIsPluralization ==
    PluralApplied =>
        LET w == morph_call.base_word
            r == morph_call.returned
            n == Len(w)
        IN  /\ n = 0 => r = w
            /\ (n > 0 /\ w[n] \in {"a","e","i","o","u"}) => r = Append(w, "s")
            /\ (n > 0 /\ w[n] = "z") => r = [j \in 1..(n + 2) |->
                                               IF j < n THEN w[j]
                                               ELSE IF j = n THEN "c"
                                               ELSE IF j = n + 1 THEN "e" ELSE "s"]
            /\ (n > 0 /\ w[n] \notin {"a","e","i","o","u","z"})
                   => r = Append(Append(w, "e"), "s")

\* "luz" was pluralized by a first "plural" rule registered as a prefix "re"
C5_Witness ==
    /\ PluralApplied
    /\ morph_call.base_word = <<"l","u","z">>
    /\ morph_call.returned = <<"l","u","c","e","s">>
    /\ LET first == CHOOSE i \in Named(rules, "plural") :
                        \A j \in Named(rules, "plural") : i <= j
       IN  rules[first].rule_type = "prefix" /\ rules[first].marker = <<"r","e">>

\* C9: apply_morphology(w, n) with n the name of no registered rule returns w
\* and leaves the rule list as it was
C9_UnknownRuleIsNoOp ==
    [][ ( /\ morph_call'.method = "apply_morphology"
          /\ Named(rules, morph_call'.rule_name) = {} )
        => /\ morph_call'.returned = morph_call'.base_word
           /\ rules' = rules ]_vars

\* a non-empty word came back unchanged from a non-empty rule list
C9_Witness ==
    /\ morph_call.method = "apply_morphology"
    /\ Named(rules, morph_call.rule_name) = {}
    /\ Len(rules) = 2
    /\ morph_call.base_word = <<"c","a","s","a">>
    /\ morph_call.returned = <<"c","a","s","a">>

-----------------------------------------------------------------------------
(* Properties of generate_sentence and generate_yesno_question, under SpecSyntax *)

HasSpace(s) == \E i \in 1..Len(s) : s[i] = " "

Join2(a, b) == a \o <<" ">> \o b
Join3(a, b, c) == a \o <<" ">> \o b \o <<" ">> \o c

\* C3: with an empty object and a subject and verb without spaces,
\* generate_sentence returns the two remaining slots joined by one space: no
\* two consecutive spaces, no leading or trailing space
C3_EmptyObjectOmitted ==
    ( /\ syntax_call.method = "generate_sentence"
      /\ syntax_call.obj = <<>>
      /\ ~HasSpace(syntax_call.subject)
      /\ ~HasSpace(syntax_call.verb) )
    => LET r == syntax_call.returned
       IN  /\ \A i \in 1..(Len(r) - 1) : ~(r[i] = " " /\ r[i+1] = " ")
           /\ r[1] # " " /\ r[Len(r)] # " "
           /\ r = IF word_order = "VSO"
                  THEN Join2(syntax_call.verb, syntax_call.subject)
                  ELSE Join2(syntax_call.subject, syntax_call.verb)

\* the slots in the order the claim gives for each word order
Placed(order, subject, verb, obj) ==
    CASE order = "SOV" -> Join3(subject, obj, verb)
      [] order = "VSO" -> Join3(verb, subject, obj)
      [] OTHER -> Join3(subject, verb, obj)

SlotsPlaced(c) ==
    /\ c.method = "generate_sentence"
         => c.returned = Placed(word_order, c.subject, c.verb, c.obj)
    /\ c.method = "generate_yesno_question"
         => c.returned = <<"¿">> \o Placed(word_order, c.subject, c.verb, c.obj) \o <<"?">>

\* C8 as stated: for all non-empty subject, verb and object the result is the
\* three slots in the word order's places (SVO for an unrecognized order), and
\* the question is that sentence between the two question marks
C8_SlotsPlacedForAllWords ==
    syntax_call.obj # <<>> => SlotsPlaced(syntax_call)

EdgeSpace(s) == s # <<>> /\ (s[1] \in WhitespaceChars \/ s[Len(s)] \in WhitespaceChars)

\* C8 amended: the same, for non-empty subject, verb and object that neither
\* begin nor end with whitespace
C8_SlotsPlacedForTrimmedWords ==
    ( /\ syntax_call.obj # <<>>
      /\ ~EdgeSpace(syntax_call.subject)
      /\ ~EdgeSpace(syntax_call.verb)
      /\ ~EdgeSpace(syntax_call.obj) )
    => SlotsPlaced(syntax_call)

\* a question was built under the unrecognized order from three distinct words
C8_Witness ==
    /\ word_order = "OSV"
    /\ syntax_call.method = "generate_yesno_question"
    /\ syntax_call.subject = <<"p","e","r","r","o">>
    /\ syntax_call.verb = <<"c","o","m","e">>
    /\ syntax_call.obj = <<"p","a","n">>
    /\ syntax_call.returned =
         <<"¿","p","e","r","r","o"," ","c","o","m","e"," ","p","a","n","?">>

-----------------------------------------------------------------------------
(* Properties of the game flow, under SpecGame *)

\* run_game is about to call self.phonology.generate_word()
AtGenerateWord ==
    \/ gpc = "l1_words" /\ sample_i < SampleWords
    \/ gpc = "l3_noun" /\ vocabulary.noun = 0
    \/ gpc = "l3_verb" /\ vocabulary.verb = 0

\* C7: whatever the user added and removed in level 1, both inventories are
\* non-empty wherever the game calls generate_word
C7_InventoriesNonEmptyAtGenerateWord ==
    AtGenerateWord => (consonants # {} /\ vowels # {})

=============================================================================
